---- MODULE Spec2Model ----
(***************************************************************************)
(* Model of the contract builder: build_within_docker.py (the packaging    *)
(* codec, the directory walker, the archive builder and the per-contract   *)
(* build pipeline of main) and source_code.py (get_source_code_files).     *)
(*                                                                         *)
(* Text is modelled as TLA+ strings; a path is the sequence of its parts   *)
(* (pathlib's Path.parts); a file system is a function from the paths of   *)
(* its regular files to their contents.                                    *)
(***************************************************************************)
EXTENDS Integers, Sequences, FiniteSets, TLC

(***************************************************************************)
(* Strings                                                                 *)
(***************************************************************************)

Char(s, i) == SubSeq(s, i, i)

\* The printable ASCII characters, code points 32..95 and 97..126, in order.
AsciiLow == " !\"#$%&'()*+,-./0123456789:;<=>?@ABCDEFGHIJKLMNOPQRSTUVWXYZ[\\]^_"

AsciiHigh == "abcdefghijklmnopqrstuvwxyz{|}~"

\* The code point of each character, as a table.
CodePoints ==
    [c \in {Char(AsciiLow, i) : i \in 1..Len(AsciiLow)}
            \cup {Char(AsciiHigh, i) : i \in 1..Len(AsciiHigh)} \cup {"\n", "\t"} |->
        IF c = "\n" THEN 10
        ELSE IF c = "\t" THEN 9
        ELSE IF \E i \in 1..Len(AsciiLow) : Char(AsciiLow, i) = c
             THEN 31 + (CHOOSE i \in 1..Len(AsciiLow) : Char(AsciiLow, i) = c)
             ELSE 96 + (CHOOSE i \in 1..Len(AsciiHigh) : Char(AsciiHigh, i) = c)]

\* ord(c) of a character of the texts of the model.
Ord(c) == CodePoints[c]

\* chr(n), for a code point of the texts of the model.
Chr(n) ==
    IF n = 10 THEN "\n"
    ELSE IF n = 9 THEN "\t"
    ELSE IF n < 96 THEN Char(AsciiLow, n - 31)
    ELSE Char(AsciiHigh, n - 96)

\* The least and the greatest of a non-empty set of numbers.
Min(numbers) == CHOOSE n \in numbers : \A m \in numbers : n <= m

Max(numbers) == CHOOSE n \in numbers : \A m \in numbers : m <= n

\* The concatenation of the strings (or sequences) pieces[lo .. hi].
RECURSIVE ConcatRange(_, _, _, _)
ConcatRange(pieces, lo, hi, empty) ==
    IF lo > hi THEN empty
    ELSE IF lo = hi THEN pieces[lo]
    ELSE LET mid == (lo + hi) \div 2
         IN  ConcatRange(pieces, lo, mid, empty) \o ConcatRange(pieces, mid + 1, hi, empty)

\* str.startswith
StartsWith(s, prefix) ==
    /\ Len(prefix) <= Len(s)
    /\ SubSeq(s, 1, Len(prefix)) = prefix

\* str.endswith
EndsWith(s, suffix) ==
    /\ Len(suffix) <= Len(s)
    /\ SubSeq(s, Len(s) - Len(suffix) + 1, Len(s)) = suffix

\* `sub in s`
Contains(s, sub) ==
    \E i \in 1..(Len(s) - Len(sub) + 1) : SubSeq(s, i, i + Len(sub) - 1) = sub

\* The positions in s, in increasing order, that hold a character of the set.
Positions(s, chars) ==
    LET hits == {i \in 1..Len(s) : Char(s, i) \in chars}
    IN  [k \in 1..Cardinality(hits) |->
            CHOOSE i \in hits : Cardinality({j \in hits : j < i}) = k - 1]

\* str.split(sep) for a separator of one character: the list of the pieces.
Split(s, sep) ==
    LET at == Positions(s, {sep})
    IN  [k \in 1..(Len(at) + 1) |->
            SubSeq(s, IF k = 1 THEN 1 ELSE at[k - 1] + 1,
                      IF k > Len(at) THEN Len(s) ELSE at[k] - 1)]

\* The characters str.strip() removes.
Whitespace == {" ", "\t", "\n", "\r", "\f"}

\* str.strip(chars): leading and trailing characters of the set removed.
Strip(s, chars) ==
    LET kept == {i \in 1..Len(s) : Char(s, i) \notin chars}
    IN  IF kept = {} THEN "" ELSE SubSeq(s, Min(kept), Max(kept))

\* file.readlines(): the lines of a text, each keeping its line break.
ReadLines(s) ==
    LET at == Positions(s, {"\n"})
        complete == [k \in 1..Len(at) |->
                        SubSeq(s, IF k = 1 THEN 1 ELSE at[k - 1] + 1, at[k])]
        last_break == IF Len(at) = 0 THEN 0 ELSE at[Len(at)]
    IN  IF last_break < Len(s)
        THEN Append(complete, SubSeq(s, last_break + 1, Len(s)))
        ELSE complete

\* sep.join(parts)
Join(parts, sep) ==
    ConcatRange([i \in 1..Len(parts) |-> IF i = 1 THEN parts[i] ELSE sep \o parts[i]],
                1, Len(parts), "")

\* s < t for strings, as Python compares them: by code point, then by length.
StrLess(s, t) ==
    LET shorter == IF Len(s) < Len(t) THEN Len(s) ELSE Len(t)
        differ == {i \in 1..shorter : Char(s, i) # Char(t, i)}
    IN  IF differ = {} THEN Len(s) < Len(t)
        ELSE Ord(Char(s, Min(differ))) < Ord(Char(t, Min(differ)))

\* fnmatch of a file name against a pattern whose only wildcard is "*".
RECURSIVE FnMatch(_, _)
FnMatch(name, pattern) ==
    IF Len(pattern) = 0 THEN Len(name) = 0
    ELSE IF Char(pattern, 1) = "*"
         THEN \/ FnMatch(name, Tail(pattern))
              \/ Len(name) > 0 /\ FnMatch(Tail(name), pattern)
         ELSE /\ Len(name) > 0
              /\ Char(name, 1) = Char(pattern, 1)
              /\ FnMatch(Tail(name), Tail(pattern))

(***************************************************************************)
(* Paths (pathlib) and file systems                                        *)
(***************************************************************************)

\* Path.name: the last part of a path ("" for the empty path).
PathName(p) == IF Len(p) = 0 THEN "" ELSE p[Len(p)]

\* Path.parent
PathParent(p) == IF Len(p) = 0 THEN p ELSE SubSeq(p, 1, Len(p) - 1)

\* Path.suffix: the name from its last "." on, when that "." is neither the
\* first nor the last character of the name.
PathSuffix(p) ==
    LET name == PathName(p)
        dots == {i \in 1..Len(name) : Char(name, i) = "."}
    IN  IF dots = {} THEN ""
        ELSE LET k == CHOOSE i \in dots : \A j \in dots : j <= i
             IN  IF 1 < k /\ k < Len(name) THEN SubSeq(name, k, Len(name)) ELSE ""

\* Path.with_suffix(suffix): the name's suffix replaced.
WithSuffix(p, suffix) ==
    LET name == PathName(p)
        stem == SubSeq(name, 1, Len(name) - Len(PathSuffix(p)))
    IN  PathParent(p) \o << stem \o suffix >>

\* p lies inside directory d (at any depth).
IsUnder(p, d) == Len(p) > Len(d) /\ SubSeq(p, 1, Len(d)) = d

\* Path.relative_to(d), for a path inside d.
RelativeTo(p, d) == SubSeq(p, Len(d) + 1, Len(p))

\* str(path) of a relative path: its parts joined by "/", "." when it has none.
PathStr(p) == IF Len(p) = 0 THEN "." ELSE Join(p, "/")

\* Path(text) of a relative path: the parts between "/", empty and "." parts dropped.
ParsePath(text) == SelectSeq(Split(text, "/"), LAMBDA part : part # "" /\ part # ".")

\* pathlib's Path.resolve() on a path without symbolic links: ".." steps up.
RECURSIVE ResolvePath(_)
ResolvePath(path) ==
    IF path = << >> THEN << >>
    ELSE LET front == ResolvePath(SubSeq(path, 1, Len(path) - 1))
             last == path[Len(path)]
         IN  IF last = "." THEN front
             ELSE IF last = ".." THEN
                 (IF front = << >> THEN << >> ELSE SubSeq(front, 1, Len(front) - 1))
             ELSE Append(front, last)

\* The paths of the regular files inside directory d.
FilesUnder(fsys, d) == {p \in DOMAIN fsys : IsUnder(p, d)}

\* A directory exists when a file lies inside it (empty directories are not modelled).
DirExists(fsys, d) == FilesUnder(fsys, d) # {}

\* The file system with the files of `files` (a function path -> content) written.
WriteFiles(fsys, files) ==
    [p \in DOMAIN fsys \cup DOMAIN files |->
        IF p \in DOMAIN files THEN files[p] ELSE fsys[p]]

\* shutil.rmtree(d, ignore_errors=True)
RmTree(fsys, d) == [p \in DOMAIN fsys \ FilesUnder(fsys, d) |-> fsys[p]]

\* shutil.copytree(src, dst, dirs_exist_ok=True): every file of src copied to the
\* same relative place under dst, files already in dst overwritten or kept.
CopyTree(fsys, src, dst) ==
    WriteFiles(fsys,
       [q \in {dst \o RelativeTo(p, src) : p \in FilesUnder(fsys, src)} |->
           fsys[src \o RelativeTo(q, dst)]])

(***************************************************************************)
(* base64                                                                  *)
(***************************************************************************)

B64Alphabet == "ABCDEFGHIJKLMNOPQRSTUVWXYZabcdefghijklmnopqrstuvwxyz0123456789+/"

B64Char(n) == Char(B64Alphabet, n + 1)

\* The value of each character of the base64 alphabet, as a table.
B64Values ==
    [c \in {Char(B64Alphabet, i) : i \in 1..Len(B64Alphabet)} |->
        (CHOOSE i \in 1..Len(B64Alphabet) : Char(B64Alphabet, i) = c) - 1]

B64Value(c) == B64Values[c]

\* base64.b64encode(content).decode(): three bytes to four characters, "=" padded.
b64encode(content) ==
    LET groups == (Len(content) + 2) \div 3
        Byte(i) == IF i <= Len(content) THEN Ord(Char(content, i)) ELSE 0
        Group(g) ==
            LET n == Byte(3 * g - 2) * 65536 + Byte(3 * g - 1) * 256 + Byte(3 * g)
                c1 == B64Char(n \div 262144)
                c2 == B64Char((n \div 4096) % 64)
                c3 == IF 3 * g - 1 > Len(content) THEN "=" ELSE B64Char((n \div 64) % 64)
                c4 == IF 3 * g > Len(content) THEN "=" ELSE B64Char(n % 64)
            IN  c1 \o c2 \o c3 \o c4
    IN  ConcatRange([g \in 1..groups |-> Group(g)], 1, groups, "")

\* base64.b64decode(text): four characters to three bytes, padding dropped.
b64decode(text) ==
    LET groups == Len(text) \div 4
        Group(g) ==
            LET p3 == Char(text, 4 * g - 1) = "="
                p4 == Char(text, 4 * g) = "="
                v3 == IF p3 THEN 0 ELSE B64Value(Char(text, 4 * g - 1))
                v4 == IF p4 THEN 0 ELSE B64Value(Char(text, 4 * g))
                n  == B64Value(Char(text, 4 * g - 3)) * 262144
                        + B64Value(Char(text, 4 * g - 2)) * 4096 + v3 * 64 + v4
                b1 == Chr(n \div 65536)
                b2 == Chr((n \div 256) % 256)
                b3 == Chr(n % 256)
            IN  IF p3 THEN b1 ELSE IF p4 THEN b1 \o b2 ELSE b1 \o b2 \o b3
    IN  ConcatRange([g \in 1..groups |-> Group(g)], 1, groups, "")

(***************************************************************************)
(* File classifier and directory walker                                    *)
(***************************************************************************)

\* is_source_code_file(path)
is_source_code_file(path) ==
    IF PathSuffix(path) = ".rs" THEN TRUE
    ELSE IF PathName(path) \in {"Cargo.toml", "Cargo.lock", "elrond.json"} THEN TRUE
    ELSE FALSE

\* The predicate get_files_recursively is given: is_source_code_file, or None,
\* which it replaces by `lambda _: True`.
should_include_file(predicate, path) ==
    IF predicate = "is_source_code_file" THEN is_source_code_file(path) ELSE TRUE

\* The names of the directories in the working directory of the process.
\* get_files_recursively tests `Path(file).is_dir()` on the bare file name, which
\* the operating system resolves against the working directory; the process is
\* taken to run in a directory that holds no directory named like a walked file.
cwd_directories == {}

\* All the orders in which os.walk may list a set of files.
WalkOrders(files) ==
    {order \in [1..Cardinality(files) -> files] :
        \A i, j \in 1..Cardinality(files) : i # j => order[i] # order[j]}

\* One order of a set of files, and the opposite one.
RECURSIVE SomeOrder(_)
SomeOrder(files) ==
    IF files = {} THEN << >>
    ELSE LET f == CHOOSE f \in files : TRUE
         IN  << f >> \o SomeOrder(files \ {f})

Reversed(seq) == [i \in 1..Len(seq) |-> seq[Len(seq) + 1 - i]]

\* get_files_recursively(directory, should_include_file); `listing` is the files
\* of the directory as os.walk yields them, root_path / file for each.
get_files_recursively(listing, predicate) ==
    SelectSeq(listing,
        LAMBDA full_path :
            LET file_path == << PathName(full_path) >>
            IN  /\ PathName(file_path) \notin cwd_directories
                /\ should_include_file(predicate, file_path))

(***************************************************************************)
(* Packaging codec                                                         *)
(***************************************************************************)

\* dict.get(key, default)
Get(dict, key, default) == IF key \in DOMAIN dict THEN dict[key] ELSE default

\* next((line for line in lines if line.startswith(prefix)), default)
FirstLineWith(lines, prefix, default) ==
    LET hits == {i \in 1..Len(lines) : StartsWith(lines[i], prefix)}
    IN  IF hits = {} THEN default
        ELSE lines[CHOOSE i \in hits : \A j \in hits : i <= j]

\* get_contract_name_and_version(contract_directory): << name, version >>, read
\* from the lines of Cargo.toml (which must exist: open() raises otherwise).
get_contract_name_and_version(fsys, contract_directory) ==
    LET lines == ReadLines(fsys[contract_directory \o << "Cargo.toml" >>])
        line_with_name == FirstLineWith(lines, "name = ", "name = \"untitled\"")
        line_with_version == FirstLineWith(lines, "version = ", "version = \"0.0.0\"")
        name == Strip(Strip(Split(line_with_name, "=")[2], Whitespace), {"\""})
        version == Strip(Strip(Split(line_with_version, "=")[2], Whitespace), {"\""})
    IN  << name, version >>

\* open(contract_directory / "Cargo.toml") succeeds.
HasManifest(fsys, contract_directory) ==
    (contract_directory \o << "Cargo.toml" >>) \in DOMAIN fsys

\* PackagedProject._create_entries_from_folder(folder)
create_entries_from_folder(fsys, folder, listing) ==
    LET files == get_files_recursively(listing, "is_source_code_file")
    IN  [i \in 1..Len(files) |->
            [path |-> RelativeTo(files[i], folder), content |-> fsys[files[i]]]]

\* PackagedProject.from_folder(folder)
from_folder(fsys, folder, listing) ==
    LET entries == create_entries_from_folder(fsys, folder, listing)
        name_version == get_contract_name_and_version(fsys, folder)
    IN  [name |-> name_version[1], version |-> name_version[2], entries |-> entries]

\* PackagedProjectEntry.to_dict
entry_to_dict(entry) ==
    [path |-> PathStr(entry.path), content |-> b64encode(entry.content)]

\* PackagedProjectEntry.from_dict
entry_from_dict(dict) ==
    [path |-> ParsePath(Get(dict, "path", "")),
     content |-> b64decode(Get(dict, "content", ""))]

\* PackagedProject.to_dict
to_dict(package) ==
    [name |-> package.name,
     version |-> package.version,
     entries |-> [i \in 1..Len(package.entries) |-> entry_to_dict(package.entries[i])]]

\* PackagedProject.from_dict
from_dict(data) ==
    LET entries_raw == Get(data, "entries", << >>)
    IN  [name |-> Get(data, "name", "untitled"),
         version |-> Get(data, "version", "0.0.0"),
         entries |-> [i \in 1..Len(entries_raw) |-> entry_from_dict(entries_raw[i])]]

\* An entry unwrap_to_folder cannot write: mkdir(parents=True) finds a regular
\* file where it needs a directory, or open(.., "wb") finds a directory.
UnwrapRaises(fsys, entry, folder) ==
    LET full_path == folder \o entry.path
    IN  \/ \E k \in 1..(Len(full_path) - 1) : SubSeq(full_path, 1, k) \in DOMAIN fsys
        \/ DirExists(fsys, full_path)
        \/ Len(entry.path) = 0

\* PackagedProject.unwrap_to_folder(folder), entry after entry: the file system
\* after the entries from the i-th on are written (up to the first that raises).
RECURSIVE unwrap_from(_, _, _, _)
unwrap_from(fsys, entries, i, folder) ==
    IF i > Len(entries) \/ UnwrapRaises(fsys, entries[i], folder) THEN fsys
    ELSE unwrap_from(WriteFiles(fsys, (folder \o entries[i].path) :> entries[i].content),
                     entries, i + 1, folder)

\* The write of an entry drops its directories: every file lands in the folder itself.
unwrap_flat(fsys, package, folder) ==
    WriteFiles(fsys,
        [q \in {folder \o << PathName(package.entries[i].path) >> :
                    i \in 1..Len(package.entries)} |->
            LET i == CHOOSE i \in 1..Len(package.entries) :
                        folder \o << PathName(package.entries[i].path) >> = q
            IN  package.entries[i].content])

unwrap_to_folder(fsys, package, folder) == unwrap_from(fsys, package.entries, 1, folder)

\* unwrap_to_folder raises at some entry.
RECURSIVE unwrap_raises_from(_, _, _, _)
unwrap_raises_from(fsys, entries, i, folder) ==
    IF i > Len(entries) THEN FALSE
    ELSE IF UnwrapRaises(fsys, entries[i], folder) THEN TRUE
    ELSE unwrap_raises_from(
            WriteFiles(fsys, (folder \o entries[i].path) :> entries[i].content),
            entries, i + 1, folder)

unwrap_raises(fsys, package, folder) == unwrap_raises_from(fsys, package.entries, 1, folder)

(***************************************************************************)
(* Build pipeline: helpers of main                                         *)
(***************************************************************************)

HARDCODED_BUILD_DIRECTORY == << "tmp", "contract" >>

HARDCODED_UNWRAP_DIRECTORY == << "tmp", "unwrapped" >>

ONE_KB_IN_BYTES == 1024

MAX_SOURCE_CODE_ARCHIVE_SIZE == ONE_KB_IN_BYTES * 1024

MAX_OUTPUT_ARTIFACTS_ARCHIVE_SIZE == ONE_KB_IN_BYTES * 1024

\* An absent command-line argument or value.
None == << >>

\* p < q for paths, as sorted() compares them: part by part.
RECURSIVE PathLess(_, _)
PathLess(p, q) ==
    IF Len(q) = 0 THEN FALSE
    ELSE IF Len(p) = 0 THEN TRUE
    ELSE IF p[1] = q[1] THEN PathLess(Tail(p), Tail(q))
    ELSE StrLess(p[1], q[1])

\* sorted(paths)
RECURSIVE SortedPaths(_)
SortedPaths(paths) ==
    IF paths = {} THEN << >>
    ELSE LET least == CHOOSE p \in paths : \A q \in paths : ~PathLess(q, p)
         IN  << least >> \o SortedPaths(paths \ {least})

\* get_contracts_directories(project_path): the parents of the files that
\* project_path.glob("**/elrond.json") finds, sorted.
get_contracts_directories(fsys, project_path) ==
    SortedPaths({PathParent(p) : p \in {q \in FilesUnder(fsys, project_path) :
                                            PathName(q) = "elrond.json"}})

\* copy_project_directory_to_build_directory(project_directory)
copy_project_directory_to_build_directory(fsys, project_directory) ==
    CopyTree(RmTree(fsys, HARDCODED_BUILD_DIRECTORY),
             project_directory, HARDCODED_BUILD_DIRECTORY)

\* clean(directory, clean_output)
clean(fsys, directory, clean_output) ==
    LET no_wasm_target == RmTree(fsys, directory \o << "wasm", "target" >>)
        no_meta_target == RmTree(no_wasm_target, directory \o << "meta", "target" >>)
    IN  IF clean_output THEN RmTree(no_meta_target, directory \o << "output" >>)
        ELSE no_meta_target

\* The files of a directory as text, in an order fixed by the set of files alone:
\* what a deterministic tool run on the directory can depend on.
FilesText(fsys, directory, paths) ==
    LET sorted == SortedPaths(paths)
    IN  ConcatRange([i \in 1..Len(sorted) |->
                        PathStr(RelativeTo(sorted[i], directory)) \o "=" \o fsys[sorted[i]] \o ";"],
                    1, Len(sorted), "")

\* The lock file cargo writes beside a manifest when there is none.
CargoLockFor(fsys, crate_directory) ==
    IF (crate_directory \o << "Cargo.lock" >>) \in DOMAIN fsys THEN << >>
    ELSE (crate_directory \o << "Cargo.lock" >>) :>
            ("lock of " \o Get(fsys, crate_directory \o << "Cargo.toml" >>, ""))

\* The external compiler, `cargo run build` run in build_directory / "meta",
\* when it succeeds: it writes the lock files that are missing, then the one
\* binary module and its ABI into build_directory / "output"; the module is a
\* function of the files of the build directory.
CompilerOutput(fsys, build_directory) ==
    LET locked == WriteFiles(
                    WriteFiles(fsys, CargoLockFor(fsys, build_directory \o << "wasm" >>)),
                    CargoLockFor(fsys, build_directory \o << "meta" >>))
        crate == get_contract_name_and_version(fsys, build_directory)[1]
        inputs == FilesUnder(locked, build_directory)
        module == "wasm(" \o FilesText(locked, build_directory, inputs) \o ")"
    IN  WriteFiles(locked,
            ((build_directory \o << "output", crate \o ".wasm" >>) :> module)
         @@ ((build_directory \o << "output", crate \o ".abi.json" >>) :> "abi"))

\* compute_code_hash(wasm_file): the hex digest of the module's bytes; blake2b
\* is taken to be free of collisions.
compute_code_hash(fsys, wasm_file) == "blake2b(" \o fsys[wasm_file] \o ")"

\* generate_wabt_artifacts(wasm_file) and generate_code_hash_artifact(wasm_file):
\* the text form, the imports and the code hash, written beside the module.
PostProcessed(fsys, wasm_file) ==
    WriteFiles(fsys,
            (WithSuffix(wasm_file, ".wat") :> ("wat(" \o fsys[wasm_file] \o ")"))
         @@ (WithSuffix(wasm_file, ".imports.json") :> "[]")
         @@ (WithSuffix(wasm_file, ".codehash.txt") :> compute_code_hash(fsys, wasm_file)))

\* folder.rglob(pattern): the files at any depth of the folder whose name matches.
RGlob(paths, folder, pattern) ==
    {p \in paths : IsUnder(p, folder) /\ FnMatch(PathName(p), pattern)}

\* An archive of every file of the directory, whatever the predicate given.
archive_everything(fsys, directory, listing, predicate) ==
    [member \in {RelativeTo(f, directory) : f \in FilesUnder(fsys, directory)} |->
        fsys[directory \o member]]

\* archive_directory(archive_file, directory, should_include_file): the members
\* of the archive written, each file under its path relative to the directory.
archive_directory(fsys, directory, listing, predicate) ==
    LET files == get_files_recursively(listing, predicate)
    IN  [member \in {RelativeTo(files[i], directory) : i \in 1..Len(files)} |->
            fsys[directory \o member]]

\* BuildArtifactsAccumulator.add_artifact(contract_name, kind, value)
add_artifact(contracts_dict, contract_name, kind, value) ==
    LET with_contract ==
            IF contract_name \notin DOMAIN contracts_dict
            THEN contracts_dict @@ (contract_name :> << >>)
            ELSE contracts_dict
        artifacts == with_contract[contract_name]
    IN  [with_contract EXCEPT ![contract_name] =
            [k \in DOMAIN artifacts \cup {kind} |->
                IF k = kind THEN value ELSE artifacts[k]]]

\* The kinds gather_artifacts records, with the pattern of the file each is
\* found by ("codehash" records the content of its file, the others the name).
ArtifactPatterns ==
    << << "bytecode", "*.wasm" >>,
       << "text", "*.wat" >>,
       << "abi", "*.abi.json" >>,
       << "imports", "*.imports.json" >>,
       << "codehash", "*.codehash.txt" >>,
       << "srcPackage", "*.source.json" >>,
       << "srcArchive", "*-src-*.zip" >>,
       << "output", "*-output-*.zip" >> >>

ArtifactKinds == {ArtifactPatterns[i][1] : i \in 1..Len(ArtifactPatterns)}

\* gather_artifacts(contract_name, output_subdirectory), given the file that
\* find_file_in_folder picked for each kind: the accumulator afterwards.
RECURSIVE gather_from(_, _, _, _, _)
gather_from(contracts_dict, contract_name, found, fsys, i) ==
    IF i > Len(ArtifactPatterns) THEN contracts_dict
    ELSE LET kind == ArtifactPatterns[i][1]
             value == IF kind = "codehash" THEN fsys[found[kind]]
                      ELSE PathName(found[kind])
         IN  gather_from(add_artifact(contracts_dict, contract_name, kind, value),
                         contract_name, found, fsys, i + 1)

\* The accumulator records only the first artifact kind of a contract.
gather_first_only(contracts_dict, contract_name, found, fsys) ==
    add_artifact(contracts_dict, contract_name, "bytecode", PathName(found["bytecode"]))

gather_artifacts(contracts_dict, contract_name, found, fsys) ==
    gather_from(contracts_dict, contract_name, found, fsys, 1)

(***************************************************************************)
(* State                                                                   *)
(***************************************************************************)

VARIABLES
    fs,                     \* the regular files: path -> content
    zips,                   \* the zip archives: path -> (member path -> content)
    packaged,               \* the packaged-project JSON files: path -> dict
    manifests,              \* the artifacts.json files: path -> dict
    walk_reversed,          \* which of two orders os.walk lists files in
    args,                   \* main: parsed_args of the run
    pc,                     \* main: the step the run is at
    project_path,           \* main: project_path
    contracts_directories,  \* main: sorted(contracts_directories)
    idx,                    \* main: the position of the for loop
    current,                \* main: the locals of the loop body
    contracts,              \* artifacts_accumulator.contracts
    exit_status,            \* the exit status of the process, once it ended
    warnings,               \* the files warn_file_too_large was called for
    steps,                  \* the steps the run has taken, with the contract
    history,                \* the arguments of every run started so far
    compiler_status,        \* build: return_code of the compiler, 0 before it ran
    sizes,                  \* create_archives: the size stat() gave for each archive
    disk,                   \* codec: the files of the folder packaged and of the folder unwrapped into
    walk,                   \* codec: the order in which os.walk lists the files of the folder
    codec_package,          \* codec: the PackagedProject in memory
    codec_file,             \* codec: the JSON document save_to_file wrote
    codec_pc,               \* codec: the position of the round trip
    tree,                   \* source_code: the files of the workspace
    tool_status,            \* source_code: the exit status of `sc-meta local-deps`
    tool_output,            \* source_code: the JSON document `sc-meta local-deps` writes
    include_unrelated_to_contract,  \* source_code: the argument of get_source_code_files
    source_code_files,      \* source_code: the list get_source_code_files builds
    dependencies,           \* source_code: what _get_local_dependencies returned
    dependency_index,       \* source_code: the dependency the loop is at
    src_pc                  \* source_code: the position in get_source_code_files

buildVars ==
    << fs, zips, packaged, manifests, walk_reversed, args, pc, project_path,
       contracts_directories, idx, current, contracts, exit_status, warnings,
       steps, history, compiler_status, sizes >>

codecVars == << disk, walk, codec_package, codec_file, codec_pc >>

srcVars ==
    << tree, tool_status, tool_output, include_unrelated_to_contract, source_code_files,
       dependencies, dependency_index, src_pc >>

\* How many times the builder is run, one run after the other.
MaxRuns == 2

\* The statuses the external compiler may return: 0, failures, death by a signal.
ReturnCodes == {0, 1, 101, -9}

\* The sizes stat() may report for an archive: at the ceiling, and above it.
ArchiveSizes == {MAX_SOURCE_CODE_ARCHIVE_SIZE, MAX_SOURCE_CODE_ARCHIVE_SIZE + 1}

PROJECT == << "project" >>

\* The output directory given to the k-th run: each run has its own.
OutputOf(k) == << "output" \o Chr(48 + k) >>

\* The files of a contract: manifest, marker, source, and the meta and wasm crates.
ContractFiles(directory, name, version, deps) ==
       ((directory \o << "Cargo.toml" >>) :>
            ("name = \"" \o name \o "\"\nversion = \"" \o version \o "\"\n" \o deps))
    @@ ((directory \o << "elrond.json" >>) :> "{}")
    @@ ((directory \o << "src", name \o ".rs" >>) :> ("fn " \o name))
    @@ ((directory \o << "meta", "Cargo.toml" >>) :> ("name = \"" \o name \o "-meta\"\n"))
    @@ ((directory \o << "wasm", "Cargo.toml" >>) :> ("name = \"" \o name \o "-wasm\"\n"))

\* The project folder the live runs build: contract "a", which has a build
\* configuration file that is not "source" and depends by relative path on the
\* library "common" of the workspace; contract "b", which stands alone.
Project ==
       ContractFiles(PROJECT \o << "a" >>, "a", "0.0.0", "common = { path = \"../common\" }\n")
    @@ ((PROJECT \o << "a", "multicontract.toml" >>) :> "[a]")
    @@ ((PROJECT \o << "common", "Cargo.toml" >>) :> "name = \"common\"\n")
    @@ ((PROJECT \o << "common", "src", "lib.rs" >>) :> "fn common")
    @@ ContractFiles(PROJECT \o << "b" >>, "b", "1.0.0", "")

\* A packaged project that is there before the first run: contract "c".
SUPPLIED_PACKAGE == << "supplied", "c-2.0.0.source.json" >>

SuppliedPackage ==
    LET folder == << "c" >>
        files == ContractFiles(folder, "c", "2.0.0", "")
    IN  to_dict(from_folder(files, folder, SomeOrder(DOMAIN files)))

NoContract ==
    [name |-> "", version |-> "", contract_directory |-> None,
     build_directory |-> None, output_subdirectory |-> None]

NoArgs == [project |-> None, packaged_project |-> None, contract |-> "", output |-> None]

BuildInit ==
    /\ fs = Project
    /\ zips = << >>
    /\ packaged = (SUPPLIED_PACKAGE :> SuppliedPackage)
    /\ manifests = << >>
    /\ walk_reversed \in BOOLEAN
    /\ args = NoArgs
    /\ pc = "idle"
    /\ project_path = None
    /\ contracts_directories = << >>
    /\ idx = 0
    /\ current = NoContract
    /\ contracts = << >>
    /\ exit_status = 0
    /\ warnings = {}
    /\ steps = << >>
    /\ history = << >>
    /\ compiler_status = 0
    /\ sizes = << >>

\* Every path that names a file of some kind.
AllPaths == DOMAIN fs \cup DOMAIN zips \cup DOMAIN packaged \cup DOMAIN manifests

\* os.walk's listing of the files of a directory.
Listing(fsys, directory) ==
    IF walk_reversed THEN Reversed(SomeOrder(FilesUnder(fsys, directory)))
    ELSE SomeOrder(FilesUnder(fsys, directory))

(***************************************************************************)
(* main, step by step                                                      *)
(***************************************************************************)

\* The values of --contract the runs are given ("" when it is absent).
ContractFilters == {"", "a"}

\* The command lines of a run: a live project folder, or a packaged project (the
\* supplied one, or one that an earlier run wrote).
CommandLines ==
    {[project |-> project, packaged_project |-> packaged_project,
      contract |-> contract, output |-> OutputOf(Len(history) + 1)] :
        project \in {None, PROJECT},
        packaged_project \in {None} \cup DOMAIN packaged,
        contract \in ContractFilters}
    \ {[project |-> None, packaged_project |-> None,
        contract |-> contract, output |-> OutputOf(Len(history) + 1)] :
        contract \in ContractFilters}

\* An uncaught exception: the interpreter ends the process with status 1.
Raise(step) ==
    /\ pc' = "crashed"
    /\ exit_status' = 1
    /\ steps' = Append(steps, << step, "raise" >>)

\* build_within_docker.py is started: a new process, with nothing in memory.
Start ==
    /\ pc \in {"idle", "done", "exited", "crashed"}
    /\ Len(history) < MaxRuns
    /\ \E command_line \in CommandLines :
        /\ command_line.project = None \/ command_line.packaged_project = None
        /\ args' = command_line
        /\ history' = Append(history, command_line)
    /\ pc' = "resolve"
    /\ project_path' = None
    /\ contracts_directories' = << >>
    /\ idx' = 0
    /\ current' = NoContract
    /\ contracts' = << >>
    /\ exit_status' = 0
    /\ warnings' = {}
    /\ steps' = << >>
    /\ compiler_status' = 0
    /\ sizes' = << >>
    /\ UNCHANGED << fs, zips, packaged, manifests, walk_reversed >>
    /\ UNCHANGED << codecVars, srcVars >>

\* main, lines 160-167: the project path, or the packaged project unwrapped.
\* ErrKnown is caught by the caller of main, which prints it: the status is 0.
ResolveProject ==
    /\ pc = "resolve"
    /\ IF args.project # None
       THEN /\ project_path' = args.project
            /\ pc' = "discover"
            /\ steps' = Append(steps, << "project", "" >>)
            /\ UNCHANGED << fs, exit_status >>
       ELSE IF args.packaged_project = None
       THEN /\ pc' = "exited"
            /\ exit_status' = 0
            /\ steps' = Append(steps, << "ErrKnown", "" >>)
            /\ UNCHANGED << fs, project_path >>
       ELSE LET package == from_dict(packaged[args.packaged_project])
            IN  /\ project_path' = HARDCODED_UNWRAP_DIRECTORY
                /\ fs' = unwrap_to_folder(fs, package, HARDCODED_UNWRAP_DIRECTORY)
                /\ IF unwrap_raises(fs, package, HARDCODED_UNWRAP_DIRECTORY)
                   THEN Raise("unwrap")
                   ELSE /\ pc' = "discover"
                        /\ steps' = Append(steps, << "unwrap", "" >>)
                        /\ UNCHANGED exit_status
    /\ UNCHANGED << zips, packaged, manifests, walk_reversed, args,
                    contracts_directories, idx, current, contracts, warnings, history, compiler_status, sizes >>
    /\ UNCHANGED << codecVars, srcVars >>

\* main, line 169
Discover ==
    /\ pc = "discover"
    /\ contracts_directories' = get_contracts_directories(fs, project_path)
    /\ pc' = "copy"
    /\ steps' = Append(steps, << "discover", "" >>)
    /\ UNCHANGED << fs, zips, packaged, manifests, walk_reversed, args, project_path,
                    idx, current, contracts, exit_status, warnings, history, compiler_status, sizes >>
    /\ UNCHANGED << codecVars, srcVars >>

\* main, line 172; copytree raises when the project directory does not exist.
CopyProject ==
    /\ pc = "copy"
    /\ IF DirExists(fs, project_path)
       THEN /\ fs' = copy_project_directory_to_build_directory(fs, project_path)
            /\ idx' = 1
            /\ pc' = "loop"
            /\ steps' = Append(steps, << "copy", "" >>)
            /\ UNCHANGED exit_status
       ELSE /\ fs' = RmTree(fs, HARDCODED_BUILD_DIRECTORY)
            /\ Raise("copy")
            /\ UNCHANGED idx
    /\ UNCHANGED << zips, packaged, manifests, walk_reversed, args, project_path,
                    contracts_directories, current, contracts, warnings, history, compiler_status, sizes >>
    /\ UNCHANGED << codecVars, srcVars >>

\* main, lines 174-186: the head of the loop body, up to the --contract test.
NextContract ==
    /\ pc = "loop"
    /\ idx <= Len(contracts_directories)
    /\ LET contract_directory == contracts_directories[idx]
       IN  IF ~HasManifest(fs, contract_directory)
           THEN /\ Raise("name")
                /\ UNCHANGED << idx, current >>
           ELSE LET name_version == get_contract_name_and_version(fs, contract_directory)
                    contract_name == name_version[1]
                IN  /\ current' =
                            [name |-> contract_name,
                             version |-> name_version[2],
                             contract_directory |-> contract_directory,
                             build_directory |-> HARDCODED_BUILD_DIRECTORY
                                    \o RelativeTo(contract_directory, project_path),
                             output_subdirectory |-> args.output \o << contract_name >>]
                    /\ IF args.contract # "" /\ contract_name # args.contract
                       THEN /\ idx' = idx + 1
                            /\ pc' = "loop"
                            /\ steps' = Append(steps, << "skip", contract_name >>)
                       ELSE /\ idx' = idx
                            /\ pc' = "clean"
                            /\ steps' = Append(steps, << "contract", contract_name >>)
                    /\ UNCHANGED exit_status
    /\ UNCHANGED << fs, zips, packaged, manifests, walk_reversed, args, project_path,
                    contracts_directories, contracts, warnings, history, compiler_status, sizes >>
    /\ UNCHANGED << codecVars, srcVars >>

\* main, line 189: clean(build_directory)
CleanBefore ==
    /\ pc = "clean"
    /\ fs' = clean(fs, current.build_directory, TRUE)
    /\ pc' = "build"
    /\ steps' = Append(steps, << "clean", current.name >>)
    /\ UNCHANGED << zips, packaged, manifests, walk_reversed, args, project_path,
                    contracts_directories, idx, current, contracts, exit_status,
                    warnings, history, compiler_status, sizes >>
    /\ UNCHANGED << codecVars, srcVars >>

\* A build that goes on whatever status the compiler returned.
build_never_exits(return_code) == FALSE

\* build, lines 261-262: a compiler status other than 0 ends the process.
build_exits(return_code) == return_code # 0

\* The status of a process that calls exit(code): the low eight bits.
ExitStatus(code) == code % 256

\* main, line 190: build(build_directory, output_subdirectory, ...).
\* subprocess.run raises when its working directory, meta, does not exist.
Build ==
    /\ pc = "build"
    /\ \E return_code \in ReturnCodes :
        LET build_directory == current.build_directory
            cargo_output_directory == build_directory \o << "output" >>
            compiled == IF return_code = 0 THEN CompilerOutput(fs, build_directory) ELSE fs
            modules == RGlob(DOMAIN compiled, cargo_output_directory, "*.wasm")
        IN  IF ~DirExists(fs, build_directory \o << "meta" >>)
            THEN /\ Raise("build")
                 /\ UNCHANGED << fs, compiler_status >>
            ELSE IF build_exits(return_code)
            THEN /\ compiler_status' = return_code
                 /\ pc' = "exited"
                 /\ exit_status' = ExitStatus(return_code)
                 /\ steps' = Append(steps, << "exit", current.name >>)
                 /\ fs' = compiled
            ELSE IF modules = {}
            THEN /\ compiler_status' = return_code
                 /\ Raise("build")
                 /\ fs' = compiled
            ELSE \E wasm_file \in modules :
                 /\ compiler_status' = return_code
                 /\ fs' = CopyTree(PostProcessed(compiled, wasm_file),
                                   cargo_output_directory, current.output_subdirectory)
                 /\ pc' = "clean_after"
                 /\ steps' = Append(steps, << "build", current.name >>)
                 /\ UNCHANGED exit_status
    /\ UNCHANGED << zips, packaged, manifests, walk_reversed, args, project_path,
                    contracts_directories, idx, current, contracts, warnings, history, sizes >>
    /\ UNCHANGED << codecVars, srcVars >>

\* main, line 193: clean(build_directory, clean_output=False)
CleanAfter ==
    /\ pc = "clean_after"
    /\ fs' = clean(fs, current.build_directory, FALSE)
    /\ pc' = "promote"
    /\ steps' = Append(steps, << "clean_after", current.name >>)
    /\ UNCHANGED << zips, packaged, manifests, walk_reversed, args, project_path,
                    contracts_directories, idx, current, contracts, exit_status,
                    warnings, history, compiler_status, sizes >>
    /\ UNCHANGED << codecVars, srcVars >>

\* main, line 195: promote_cargo_lock_to_contract_directory; shutil.copy raises
\* when the lock file or the directory it goes to does not exist.
PromoteCargoLock ==
    /\ pc = "promote"
    /\ LET from_path == current.build_directory \o << "wasm", "Cargo.lock" >>
           to_path == current.contract_directory \o << "wasm", "Cargo.lock" >>
       IN  IF from_path \in DOMAIN fs /\ DirExists(fs, PathParent(to_path))
           THEN /\ fs' = WriteFiles(fs, to_path :> fs[from_path])
                /\ pc' = "archives"
                /\ steps' = Append(steps, << "promote", current.name >>)
                /\ UNCHANGED exit_status
           ELSE /\ Raise("promote")
                /\ UNCHANGED fs
    /\ UNCHANGED << zips, packaged, manifests, walk_reversed, args, project_path,
                    contracts_directories, idx, current, contracts, warnings, history, compiler_status, sizes >>
    /\ UNCHANGED << codecVars, srcVars >>

\* An archive above its ceiling makes create_archives raise.
size_check_raises(source_size, output_size) ==
    \/ source_size > MAX_SOURCE_CODE_ARCHIVE_SIZE
    \/ output_size > MAX_OUTPUT_ARTIFACTS_ARCHIVE_SIZE

\* create_archives, lines 334-340: whether the comparison of the sizes with the
\* ceilings raises (it only calls warn_file_too_large, which logs).
create_archives_raises(source_size, output_size) == FALSE

\* main, line 198: create_archives(contract_name, contract_version,
\* build_directory, output_subdirectory); the sizes are what stat() reports.
CreateArchives ==
    /\ pc = "archives"
    /\ \E source_size \in ArchiveSizes, output_size \in ArchiveSizes :
        LET input_directory == current.build_directory
            source_code_archive_file == current.output_subdirectory
                \o << current.name \o "-src-" \o current.version \o ".zip" >>
            output_artifacts_archive_file == current.output_subdirectory
                \o << current.name \o "-output-" \o current.version \o ".zip" >>
            source_members == archive_directory(fs, input_directory,
                                Listing(fs, input_directory), "is_source_code_file")
            output_members == archive_directory(fs, input_directory \o << "output" >>,
                                Listing(fs, input_directory \o << "output" >>), "None")
        IN  /\ sizes' = [f \in DOMAIN sizes
                            \cup {source_code_archive_file, output_artifacts_archive_file} |->
                          IF f = output_artifacts_archive_file THEN output_size
                          ELSE IF f = source_code_archive_file THEN source_size
                          ELSE sizes[f]]
            /\ zips' = [f \in DOMAIN zips
                            \cup {source_code_archive_file, output_artifacts_archive_file} |->
                          IF f = output_artifacts_archive_file THEN output_members
                          ELSE IF f = source_code_archive_file THEN source_members
                          ELSE zips[f]]
            /\ IF create_archives_raises(source_size, output_size)
               THEN /\ Raise("archives")
                    /\ UNCHANGED warnings
               ELSE /\ warnings' = warnings
                        \cup (IF source_size > MAX_SOURCE_CODE_ARCHIVE_SIZE
                              THEN {source_code_archive_file} ELSE {})
                        \cup (IF output_size > MAX_OUTPUT_ARTIFACTS_ARCHIVE_SIZE
                              THEN {output_artifacts_archive_file} ELSE {})
                    /\ pc' = "package"
                    /\ steps' = Append(steps, << "archives", current.name >>)
                    /\ UNCHANGED exit_status
    /\ UNCHANGED << fs, packaged, manifests, walk_reversed, args, project_path,
                    contracts_directories, idx, current, contracts, history, compiler_status >>
    /\ UNCHANGED << codecVars, srcVars >>

\* create_packaged_project(contract_name, contract_version, input_directory,
\* output_directory): the path of the file written, and the JSON written.
create_packaged_project(fsys, contract_name, contract_version, input_directory, output_directory, listing) ==
    LET package == from_folder(fsys, input_directory, listing)
        package_path == output_directory
            \o << contract_name \o "-" \o contract_version \o ".source.json" >>
    IN  << package_path, to_dict(package) >>

\* main, line 199
CreatePackagedProject ==
    /\ pc = "package"
    /\ IF HasManifest(fs, current.build_directory)
       THEN LET written == create_packaged_project(fs, current.name, current.version,
                                current.build_directory, current.output_subdirectory,
                                Listing(fs, current.build_directory))
            IN  /\ packaged' = [f \in DOMAIN packaged \cup {written[1]} |->
                                  IF f = written[1] THEN written[2] ELSE packaged[f]]
                /\ pc' = "gather"
                /\ steps' = Append(steps, << "package", current.name >>)
                /\ UNCHANGED exit_status
       ELSE /\ Raise("package")
            /\ UNCHANGED packaged
    /\ UNCHANGED << fs, zips, manifests, walk_reversed, args, project_path,
                    contracts_directories, idx, current, contracts, warnings, history, compiler_status, sizes >>
    /\ UNCHANGED << codecVars, srcVars >>

\* main, line 201: artifacts_accumulator.gather_artifacts(contract_name,
\* output_subdirectory). find_file_in_folder raises when no file matches a
\* pattern, and picks the first of several, in the order rglob finds them.
GatherArtifacts ==
    /\ pc = "gather"
    /\ LET matches == [kind \in ArtifactKinds |->
                RGlob(AllPaths, current.output_subdirectory,
                      (CHOOSE pair \in {ArtifactPatterns[i] : i \in 1..Len(ArtifactPatterns)} :
                            pair[1] = kind)[2])]
       IN  IF \E kind \in ArtifactKinds : matches[kind] = {}
           THEN /\ Raise("gather")
                /\ UNCHANGED << contracts, idx >>
           ELSE \E bytecode \in matches["bytecode"], text \in matches["text"],
                   abi \in matches["abi"], imports \in matches["imports"],
                   codehash \in matches["codehash"], srcPackage \in matches["srcPackage"],
                   srcArchive \in matches["srcArchive"], output \in matches["output"] :
                /\ contracts' = gather_artifacts(contracts, current.name,
                        [bytecode |-> bytecode, text |-> text, abi |-> abi,
                         imports |-> imports, codehash |-> codehash,
                         srcPackage |-> srcPackage, srcArchive |-> srcArchive,
                         output |-> output], fs)
                /\ idx' = idx + 1
                /\ pc' = "loop"
                /\ steps' = Append(steps, << "gather", current.name >>)
                /\ UNCHANGED exit_status
    /\ UNCHANGED << fs, zips, packaged, manifests, walk_reversed, args, project_path,
                    contracts_directories, current, warnings, history, compiler_status, sizes >>
    /\ UNCHANGED << codecVars, srcVars >>

\* main, line 203, after the loop: artifacts_accumulator.dump_to_file; the run
\* then ends with status 0.
DumpArtifacts ==
    /\ pc = "loop"
    /\ idx > Len(contracts_directories)
    /\ manifests' = [f \in DOMAIN manifests \cup {args.output \o << "artifacts.json" >>} |->
                        IF f = args.output \o << "artifacts.json" >> THEN contracts
                        ELSE manifests[f]]
    /\ pc' = "done"
    /\ exit_status' = 0
    /\ steps' = Append(steps, << "dump", "" >>)
    /\ UNCHANGED << fs, zips, packaged, walk_reversed, args, project_path,
                    contracts_directories, idx, current, contracts, warnings, history, compiler_status, sizes >>
    /\ UNCHANGED << codecVars, srcVars >>

BuildNext ==
    \/ Start
    \/ ResolveProject
    \/ Discover
    \/ CopyProject
    \/ NextContract
    \/ CleanBefore
    \/ Build
    \/ CleanAfter
    \/ PromoteCargoLock
    \/ CreateArchives
    \/ CreatePackagedProject
    \/ GatherArtifacts
    \/ DumpArtifacts

(***************************************************************************)
(* Packaging codec: capture, save, load, unwrap                            *)
(***************************************************************************)

\* The most files the folder packaged holds.
MaxFiles == 3

\* The folder packaged, and the fresh folder the codec_package is unwrapped into.
FOLDER == << "D" >>

FRESH_FOLDER == << "D2" >>

\* The contents a file of the folder may have, by its path inside the folder:
\* manifests with and without a name line, sources of 0 to 3 bytes, files in
\* subdirectories, and files that are not source.
FolderContents ==
       (<< "Cargo.toml" >> :> {"name = \"x\"\nversion = \"1.2.3\"\n", "version = \"1.0=2\"\n"})
    @@ (<< "src", "lib.rs" >> :> {"", "fn"})
    @@ (<< "src", "deep", "m.rs" >> :> {"f"})
    @@ (<< "meta", "Cargo.lock" >> :> {"lock"})
    @@ (<< "elrond.json" >> :> {"{}\n"})
    @@ (<< "README.md" >> :> {"# x"})
    @@ (<< "src", "notes.txt" >> :> {"todo"})

\* The folders packaged: every choice of at most MaxFiles files and contents.
Folders ==
    UNION {[{FOLDER \o path : path \in paths} -> UNION {FolderContents[q] : q \in paths}] :
              paths \in {ps \in SUBSET DOMAIN FolderContents : Cardinality(ps) <= MaxFiles}}

CodecInit ==
    /\ disk \in {folder \in Folders :
                    \A f \in DOMAIN folder : folder[f] \in FolderContents[RelativeTo(f, FOLDER)]}
    /\ walk \in WalkOrders(DOMAIN disk)
    /\ codec_package = None
    /\ codec_file = None
    /\ codec_pc = "folder"

\* The codec at rest, while another part of the program is explored.
CodecIdle ==
    /\ disk = << >>
    /\ walk = << >>
    /\ codec_package = None
    /\ codec_file = None
    /\ codec_pc = "idle"

\* package = PackagedProject.from_folder(folder)
FromFolder ==
    /\ codec_pc = "folder"
    /\ IF HasManifest(disk, FOLDER)
       THEN /\ codec_package' = from_folder(disk, FOLDER, walk)
            /\ codec_pc' = "captured"
       ELSE /\ codec_pc' = "raised"
            /\ UNCHANGED codec_package
    /\ UNCHANGED << disk, walk, codec_file, buildVars, srcVars >>

\* package.save_to_file(file): json.dump of to_dict()
SaveToFile ==
    /\ codec_pc = "captured"
    /\ codec_file' = to_dict(codec_package)
    /\ codec_pc' = "saved"
    /\ UNCHANGED << disk, walk, codec_package, buildVars, srcVars >>

\* package = PackagedProject.from_file(file): from_dict of json.load
FromFile ==
    /\ codec_pc = "saved"
    /\ codec_package' = from_dict(codec_file)
    /\ codec_pc' = "loaded"
    /\ UNCHANGED << disk, walk, codec_file, buildVars, srcVars >>

\* package.unwrap_to_folder(folder), into a folder that does not exist yet
UnwrapToFolder ==
    /\ codec_pc = "loaded"
    /\ disk' = unwrap_to_folder(disk, codec_package, FRESH_FOLDER)
    /\ codec_pc' = IF unwrap_raises(disk, codec_package, FRESH_FOLDER) THEN "raised" ELSE "unwrapped"
    /\ UNCHANGED << walk, codec_package, codec_file, buildVars, srcVars >>

CodecNext ==
    \/ FromFolder
    \/ SaveToFile
    \/ FromFile
    \/ UnwrapToFolder

(***************************************************************************)
(* source_code.py: the source code files of a contract                     *)
(***************************************************************************)

\* The most dependencies `sc-meta local-deps` reports.
MaxDependencies == 2

\* constants.py: the name of the file `sc-meta local-deps` writes, and the name
\* of the contract's configuration file.
SC_META_LOCAL_DEPS_FILENAME == "local_deps.txt"

CONTRACT_CONFIG_FILENAME == "multiversx.json"

\* sys.maxsize, the depth given to the files unrelated to the contract (2^63 - 1
\* in CPython; here the largest integer of the model, above every depth).
SYS_MAXSIZE == 2147483647

WORKSPACE == << "ws" >>

CONTRACT_FOLDER == << "ws", "adder" >>

\* The workspace: the contract "adder", the library "common" with the library
\* "util" nested in it, the test double "pair-mock", and files of the workspace.
Workspace ==
       (<< "ws", "Cargo.toml" >> :> "[workspace]")
    @@ (<< "ws", "README.md" >> :> "# ws")
    @@ (<< "ws", "adder", "Cargo.toml" >> :> "name = \"adder\"\n")
    @@ (<< "ws", "adder", "src", "lib.rs" >> :> "fn adder")
    @@ (<< "ws", "adder", "README.md" >> :> "# adder")
    @@ (<< "ws", "adder", "target", "debug", "adder.d" >> :> "d")
    @@ (<< "ws", "common", "Cargo.toml" >> :> "name = \"common\"\n")
    @@ (<< "ws", "common", "LICENSE" >> :> "MIT")
    @@ (<< "ws", "common", "util", "Cargo.toml" >> :> "name = \"util\"\n")
    @@ (<< "ws", "common", "util", "NOTES" >> :> "util")
    @@ (<< "ws", "pair-mock", "Cargo.toml" >> :> "name = \"pair-mock\"\n")
    @@ (<< "ws", "pair-mock", "fixtures.json" >> :> "[]")

\* The dependencies `sc-meta local-deps` may report, relative to the contract.
ReportedDependencies ==
    { [path |-> "../common", depth |-> 1],
      [path |-> "../common/util", depth |-> 2],
      [path |-> "../pair-mock", depth |-> 1],
      [path |-> "../absent", depth |-> 1],
      [path |-> "../common/util"] }

\* The documents `sc-meta local-deps` may write: no "dependencies" key, or a list
\* of at most MaxDependencies dependencies, no two of them with the same path.
ToolOutputs ==
    {<< >>} \cup
    {[dependencies |-> list] :
        list \in {l \in UNION {[1 .. n -> ReportedDependencies] : n \in 0 .. MaxDependencies} :
                     \A i, j \in 1 .. Len(l) : i # j => l[i].path # l[j].path}}

SourceInit ==
    /\ tree = Workspace
    /\ tool_status \in {0, 1}
    /\ tool_output \in ToolOutputs
    /\ include_unrelated_to_contract \in BOOLEAN
    /\ source_code_files = << >>
    /\ dependencies = << >>
    /\ dependency_index = 0
    /\ src_pc = "contract"

\* source_code.py at rest, while another part of the program is explored.
SourceIdle ==
    /\ tree = << >>
    /\ tool_status = 0
    /\ tool_output = << >>
    /\ include_unrelated_to_contract = FALSE
    /\ source_code_files = << >>
    /\ dependencies = << >>
    /\ dependency_index = 0
    /\ src_pc = "idle"

\* filesystem.get_all_files(folder): every file inside the folder, at any depth.
get_all_files(fsys, folder) == SomeOrder(FilesUnder(fsys, folder))

\* _get_source_code_files(project_folder)
_get_source_code_files(fsys, project_folder) ==
    SelectSeq(get_all_files(fsys, project_folder),
        LAMBDA path :
            IF IsUnder(path, project_folder \o << "target" >>) THEN FALSE
            ELSE IF PathSuffix(path) = ".rs" THEN FALSE
            ELSE IF PathName(path) \in {"Cargo.toml", "Cargo.lock", "multicontract.toml",
                                        "sc-config.toml", CONTRACT_CONFIG_FILENAME}
            THEN FALSE
            ELSE TRUE)

\* SourceCodeFile(path, module, dependency_depth) for each file of a list
SourceCodeFiles(files, module, dependency_depth) ==
    [i \in 1 .. Len(files) |->
        [path |-> files[i], module |-> module, dependency_depth |-> dependency_depth]]

\* get_source_code_files, lines 29-31: "First, add the contract itself"
AddContractFiles ==
    /\ src_pc = "contract"
    /\ source_code_files' = source_code_files
            \o SourceCodeFiles(_get_source_code_files(tree, CONTRACT_FOLDER), CONTRACT_FOLDER, 0)
    /\ src_pc' = "dependencies"
    /\ UNCHANGED << tree, tool_status, tool_output, include_unrelated_to_contract,
                    dependencies, dependency_index, buildVars, codecVars >>

\* _get_local_dependencies(project_folder, contract_folder): the tool runs
\* (check_output raises when it fails), writes its document into the contract's
\* output folder, and the document's "dependencies" are returned.
GetLocalDependencies ==
    /\ src_pc = "dependencies"
    /\ IF tool_status # 0
       THEN /\ src_pc' = "raised"
            /\ UNCHANGED << tree, dependencies, dependency_index >>
       ELSE /\ tree' = WriteFiles(tree,
                    (CONTRACT_FOLDER \o << "output", SC_META_LOCAL_DEPS_FILENAME >>) :> "json")
            /\ dependencies' = Get(tool_output, "dependencies", << >>)
            /\ dependency_index' = 1
            /\ src_pc' = "loop"
    /\ UNCHANGED << tool_status, tool_output, include_unrelated_to_contract,
                    source_code_files, buildVars, codecVars >>

\* get_source_code_files, lines 36-47: one turn of `for dependency in dependencies`
AddDependency ==
    /\ src_pc = "loop"
    /\ dependency_index <= Len(dependencies)
    /\ LET dependency == dependencies[dependency_index]
           dependency_relative_path == Get(dependency, "path", "")
           dependency_folder ==
               ResolvePath(CONTRACT_FOLDER \o ParsePath(dependency_relative_path))
           dependency_depth == Get(dependency, "depth", 0)
       IN  IF ~DirExists(tree, dependency_folder)
           THEN /\ src_pc' = "raised"
                /\ UNCHANGED << source_code_files, dependency_index >>
           ELSE /\ source_code_files' = source_code_files
                        \o SourceCodeFiles(_get_source_code_files(tree, dependency_folder),
                                           dependency_folder, dependency_depth)
                /\ dependency_index' = dependency_index + 1
                /\ UNCHANGED src_pc
    /\ UNCHANGED << tree, tool_status, tool_output, include_unrelated_to_contract,
                    dependencies, buildVars, codecVars >>

\* get_source_code_files, lines 49-58: "Finally, add remaining files", and return
AddUnrelatedFiles ==
    /\ src_pc = "loop"
    /\ dependency_index > Len(dependencies)
    /\ LET files_related_to_contract ==
               {source_code_files[i].path : i \in 1 .. Len(source_code_files)}
           all_files == _get_source_code_files(tree, WORKSPACE)
           remaining == SelectSeq(all_files, LAMBDA file : file \notin files_related_to_contract)
       IN  source_code_files' =
               IF include_unrelated_to_contract
               THEN source_code_files \o SourceCodeFiles(remaining, CONTRACT_FOLDER, SYS_MAXSIZE)
               ELSE source_code_files
    /\ src_pc' = "returned"
    /\ UNCHANGED << tree, tool_status, tool_output, include_unrelated_to_contract,
                    dependencies, dependency_index, buildVars, codecVars >>

SourceNext ==
    \/ AddContractFiles
    \/ GetLocalDependencies
    \/ AddDependency
    \/ AddUnrelatedFiles

(***************************************************************************)
(* Specifications                                                          *)
(***************************************************************************)

vars == << buildVars, codecVars, srcVars >>

\* The build at rest, while another part of the program is explored.
BuildIdle == BuildInit /\ walk_reversed = FALSE

Init == BuildInit /\ CodecIdle /\ SourceIdle

Next == BuildNext

\* The runs of build_within_docker.py, one after the other.
Spec == Init /\ [][Next]_vars

\* The round trip of a folder through the packaging codec.
CodecStart == CodecInit /\ BuildIdle /\ SourceIdle

CodecSpec == CodecStart /\ [][CodecNext]_vars

\* A call of get_source_code_files.
SourceStart == SourceInit /\ BuildIdle /\ CodecIdle

SourceSpec == SourceStart /\ [][SourceNext]_vars

(***************************************************************************)
(* Properties of the packaging codec                                       *)
(***************************************************************************)

\* The files of a folder that the classifier selects, by relative path.
SelectedFiles(fsys, folder) ==
    {RelativeTo(f, folder) : f \in {g \in FilesUnder(fsys, folder) : is_source_code_file(g)}}

\* C2 (packaging round trip): when a package captured from folder D, saved and
\* loaded again has been unwrapped into a fresh folder, that folder holds exactly
\* the files of D the classifier selects, under the same relative paths and with
\* the same contents, and the codec_package is the one any other order of the walk
\* gives: same name, same version, same set of entries.
C2_RoundTrip ==
    codec_pc = "unwrapped"
    => LET canonical == from_folder(disk, FOLDER, SomeOrder(FilesUnder(disk, FOLDER)))
       IN  /\ {RelativeTo(f, FRESH_FOLDER) : f \in FilesUnder(disk, FRESH_FOLDER)}
                  = SelectedFiles(disk, FOLDER)
           /\ \A path \in SelectedFiles(disk, FOLDER) :
                  disk[FRESH_FOLDER \o path] = disk[FOLDER \o path]
           /\ codec_package.name = canonical.name
           /\ codec_package.version = canonical.version
           /\ {codec_package.entries[i] : i \in 1 .. Len(codec_package.entries)}
                  = {canonical.entries[i] : i \in 1 .. Len(canonical.entries)}

\* A folder with a manifest, a source file in a subdirectory and a file that is
\* not source has gone through the round trip, walked in an order other than the
\* canonical one.
C2_Witness ==
    /\ codec_pc = "unwrapped"
    /\ FRESH_FOLDER \o << "src", "lib.rs" >> \in DOMAIN disk
    /\ disk[FRESH_FOLDER \o << "src", "lib.rs" >>] = "fn"
    /\ FOLDER \o << "README.md" >> \in DOMAIN disk
    /\ walk # SomeOrder(FilesUnder(disk, FOLDER))

(***************************************************************************)
(* Properties of get_source_code_files                                     *)
(***************************************************************************)

\* The folders the resolved dependencies name.
ResolvedFolders ==
    [i \in 1 .. Len(dependencies) |->
        ResolvePath(CONTRACT_FOLDER \o ParsePath(Get(dependencies[i], "path", "")))]

\* The entries of the result that were added for a dependency.
DependencyEntries ==
    {i \in 1 .. Len(source_code_files) :
        /\ source_code_files[i].module # CONTRACT_FOLDER
        /\ source_code_files[i].dependency_depth # SYS_MAXSIZE}

\* C5 (dependency uniqueness): when get_source_code_files returns, the resolved
\* dependencies name each folder once, and no file is listed twice among the
\* files added for the dependencies.
C5_DependenciesListedOnce ==
    src_pc = "returned"
    => /\ \A i, j \in 1 .. Len(dependencies) :
              i # j => ResolvedFolders[i] # ResolvedFolders[j]
       /\ \A i, j \in DependencyEntries :
              i # j => source_code_files[i].path # source_code_files[j].path

\* The folders of the workspace whose manifest names a package with the mock marker.
MockFolders ==
    {PathParent(f) : f \in {g \in DOMAIN tree :
        /\ PathName(g) = "Cargo.toml"
        /\ Contains(get_contract_name_and_version(tree, PathParent(g))[1], "mock")}}

\* C6 (mock exclusion): no resolved dependency is a package whose name contains
\* the mock marker, and no file of the result was added for such a package.
C6_MockPackagesExcluded ==
    /\ \A i \in 1 .. Len(dependencies) : ResolvedFolders[i] \notin MockFolders
    /\ \A i \in 1 .. Len(source_code_files) :
           source_code_files[i].module \notin MockFolders

\* The files that count as source: Rust sources, and the manifest, lock and
\* configuration files _get_source_code_files names.
CountsAsSource(path) ==
    \/ PathSuffix(path) = ".rs"
    \/ PathName(path) \in {"Cargo.toml", "Cargo.lock", "multicontract.toml",
                           "sc-config.toml", CONTRACT_CONFIG_FILENAME}

\* C11 (source code files of the contract): when get_source_code_files returns,
\* every file under the contract folder, outside its target directory, that
\* counts as source is in the result with depth 0, and no file of the result is
\* one that does not count as source.
C11_ContractSourceFilesListed ==
    src_pc = "returned"
    => /\ \A f \in FilesUnder(tree, CONTRACT_FOLDER) :
              (CountsAsSource(f) /\ ~IsUnder(f, CONTRACT_FOLDER \o << "target" >>))
              => \E i \in 1 .. Len(source_code_files) :
                     /\ source_code_files[i].path = f
                     /\ source_code_files[i].dependency_depth = 0
       /\ \A i \in 1 .. Len(source_code_files) :
              CountsAsSource(source_code_files[i].path)

(***************************************************************************)
(* Properties of the build pipeline                                        *)
(***************************************************************************)

\* The runs before the current one that built a live project folder.
EarlierLiveRuns == {k \in 1 .. Len(history) - 1 : history[k].project # None}

\* The code hash artifact a run leaves for a contract in its output directory.
CodeHashFile(output, contract_name) ==
    output \o << contract_name, contract_name \o ".codehash.txt" >>

\* C1 (build identity): when a run has built the packaged project that an earlier
\* run wrote while building contract X of a live project folder, the code hash it
\* leaves for X is the code hash that earlier run left for X.
C1_BuildIdentity ==
    \A k \in EarlierLiveRuns :
        (/\ pc = "done"
         /\ args.packaged_project # None
         /\ IsUnder(args.packaged_project, history[k].output)
         /\ args.packaged_project \in DOMAIN packaged)
        => LET X == packaged[args.packaged_project].name
               live == CodeHashFile(history[k].output, X)
               repackaged == CodeHashFile(args.output, X)
           IN  (live \in DOMAIN fs /\ repackaged \in DOMAIN fs)
               => fs[repackaged] = fs[live]

\* The directories a crate's manifest names as dependencies by relative path:
\* the lines of the form  <crate> = { path = "<relative path>" }.
PathDependencies(fsys, crate_directory) ==
    LET manifest == crate_directory \o << "Cargo.toml" >>
        lines == IF manifest \in DOMAIN fsys THEN ReadLines(fsys[manifest]) ELSE << >>
    IN  {ResolvePath(crate_directory \o ParsePath(Split(lines[i], "\"")[2])) :
            i \in {j \in 1 .. Len(lines) : Contains(lines[j], "path = \"")}}

\* A contract's directory together with its local dependencies, transitively.
RECURSIVE DependencyClosure(_, _)
DependencyClosure(fsys, directories) ==
    LET more == directories \cup
                UNION {PathDependencies(fsys, d) : d \in directories}
    IN  IF more = directories THEN directories ELSE DependencyClosure(fsys, more)

\* The packaged projects that the current run wrote, when it builds a live folder.
LivePackages ==
    IF args.project = None THEN {}
    ELSE {f \in DOMAIN packaged : IsUnder(f, args.output)}

\* The contract directory of the live project a packaged project was written for.
ContractDirectoryOf(package_file) ==
    CHOOSE d \in {contracts_directories[i] : i \in 1 .. Len(contracts_directories)} :
        PathName(d) = PathName(PathParent(package_file))

\* C3 (package completeness): a packaged project written for a contract of a live
\* project folder has an entry, with the file's content, for every file the
\* classifier selects in the contract's directory or in the directory of any local
\* dependency it reaches, directly or through other dependencies.
C3_PackageCompleteness ==
    \A package_file \in LivePackages :
        LET contract_directory == ContractDirectoryOf(package_file)
            closure == DependencyClosure(fs, {contract_directory})
            entries == packaged[package_file].entries
        IN  \A d \in closure : \A f \in FilesUnder(fs, d) :
                is_source_code_file(f)
                => \E i \in 1 .. Len(entries) :
                       /\ PathName(ParsePath(entries[i].path)) = PathName(f)
                       /\ b64decode(entries[i].content) = fs[f]

\* The names the classifier tracks besides Rust sources.
TrackedNames == {"Cargo.toml", "Cargo.lock", "elrond.json"}

\* The source archives of the current run.
SourceArchives ==
    {f \in DOMAIN zips : IsUnder(f, args.output) /\ Contains(PathName(f), "-src-")}

\* C4 (meta artifacts): no source archive and no packaged project of a run has a
\* member that is named like a tracked manifest, lock or configuration file and
\* lies inside a "meta" subdirectory, while the tracked files elsewhere in the
\* build directory are members of the source archive just made.
C4_MetaArtifactsExcluded ==
    /\ pc = "package"
       => \A f \in FilesUnder(fs, current.build_directory) :
              (PathName(f) \in TrackedNames /\ PathName(PathParent(f)) # "meta")
              => \E archive \in SourceArchives :
                     /\ IsUnder(archive, current.output_subdirectory)
                     /\ RelativeTo(f, current.build_directory) \in DOMAIN zips[archive]
    /\ \A archive \in SourceArchives : \A member \in DOMAIN zips[archive] :
           ~(PathName(member) \in TrackedNames /\ PathName(PathParent(member)) = "meta")
    /\ \A package_file \in LivePackages :
           LET entries == packaged[package_file].entries
           IN  \A i \in 1 .. Len(entries) :
                   LET member == ParsePath(entries[i].path)
                   IN  ~(/\ PathName(member) \in TrackedNames
                         /\ PathName(PathParent(member)) = "meta")

\* The two archives create_archives writes for the contract in hand.
SourceArchiveOfCurrent ==
    current.output_subdirectory
        \o << current.name \o "-src-" \o current.version \o ".zip" >>

OutputArchiveOfCurrent ==
    current.output_subdirectory
        \o << current.name \o "-output-" \o current.version \o ".zip" >>

\* The files of a directory as members: path relative to the directory -> content.
MembersOf(fsys, directory, files) ==
    [member \in {RelativeTo(f, directory) : f \in files} |-> fsys[directory \o member]]

\* C7 (archive completeness): once create_archives has run for a contract, the
\* source archive holds exactly the files under the build directory that the
\* classifier selects, each under its relative path with its content, whatever
\* the order of the walk, and the output archive holds every file of the build's
\* output directory.
C7_ArchiveCompleteness ==
    pc = "package"
    => LET build_directory == current.build_directory
           output_directory == build_directory \o << "output" >>
           selected == {f \in FilesUnder(fs, build_directory) : is_source_code_file(f)}
       IN  /\ SourceArchiveOfCurrent \in DOMAIN zips
           /\ OutputArchiveOfCurrent \in DOMAIN zips
           /\ zips[SourceArchiveOfCurrent] = MembersOf(fs, build_directory, selected)
           /\ \A f \in FilesUnder(fs, output_directory) :
                  /\ RelativeTo(f, output_directory) \in DOMAIN zips[OutputArchiveOfCurrent]
                  /\ zips[OutputArchiveOfCurrent][RelativeTo(f, output_directory)] = fs[f]

\* create_archives has run on a build directory that holds selected files in
\* subdirectories, files the classifier does not select, and build output, with
\* the walk in reversed order.
C7_Witness ==
    /\ pc = "package"
    /\ walk_reversed
    /\ << "src", "a.rs" >> \in DOMAIN zips[SourceArchiveOfCurrent]
    /\ current.build_directory \o << "multicontract.toml" >> \in DOMAIN fs
    /\ DOMAIN zips[OutputArchiveOfCurrent] # {}

\* The contracts the current run has compiled and post-processed, in order.
BuiltContracts == SelectSeq(steps, LAMBDA step : step[1] = "build")

\* The manifest the current run wrote.
ManifestOfRun == manifests[args.output \o << "artifacts.json" >>]

\* C8 (artifact manifest): when a run completes, the manifest it wrote has exactly
\* one key per contract built, and under each key a non-empty value for each of
\* the eight artifact kinds.
C8_ArtifactManifest ==
    pc = "done"
    => /\ args.output \o << "artifacts.json" >> \in DOMAIN manifests
       /\ DOMAIN ManifestOfRun = {BuiltContracts[i][2] : i \in 1 .. Len(BuiltContracts)}
       /\ Cardinality(DOMAIN ManifestOfRun) = Len(BuiltContracts)
       /\ \A contract_name \in DOMAIN ManifestOfRun :
              /\ DOMAIN ManifestOfRun[contract_name] =
                     {"bytecode", "text", "abi", "imports", "codehash",
                      "srcPackage", "srcArchive", "output"}
              /\ \A kind \in DOMAIN ManifestOfRun[contract_name] :
                     ManifestOfRun[contract_name][kind] # ""

\* A run that built two contracts has completed.
C8_Witness ==
    /\ pc = "done"
    /\ Len(BuiltContracts) = 2
    /\ Cardinality(DOMAIN ManifestOfRun) = 2

\* C9 (compile failure): once the compiler has returned a non-zero status, the
\* process has ended with that status: nothing ran after the compiler, no later
\* contract is compiled, and the run's manifest is not written.
C9_CompileFailureExits ==
    compiler_status \in 1 .. 255
    => /\ pc = "exited"
       /\ exit_status = compiler_status
       /\ steps[Len(steps)] = << "exit", current.name >>
       /\ args.output \o << "artifacts.json" >> \notin DOMAIN manifests
       /\ CodeHashFile(args.output, current.name) \notin DOMAIN fs

\* The compiler failed with status 101 on the second contract of a run, after the
\* first one was built and its artifacts gathered.
C9_Witness ==
    /\ pc = "exited"
    /\ compiler_status = 101
    /\ exit_status = 101
    /\ Len(BuiltContracts) = 1
    /\ DOMAIN contracts # {}

\* The archives of the current run whose size was above the ceiling.
Oversized ==
    {f \in DOMAIN sizes :
        sizes[f] > (IF Contains(PathName(f), "-src-")
                    THEN MAX_SOURCE_CODE_ARCHIVE_SIZE
                    ELSE MAX_OUTPUT_ARTIFACTS_ARCHIVE_SIZE)}

\* The steps of the current run that ran for a contract.
StepsOf(contract_name) ==
    {steps[i][1] : i \in {j \in 1 .. Len(steps) : steps[j][2] = contract_name}}

\* C10 (oversized archive): an archive above the size ceiling is still written,
\* with the contents it has whatever its size; the run is not ended by it (only
\* a failing compiler ends it), the remaining steps of the contract and the later
\* contracts run, the archive is recorded in the manifest, and the run ends with
\* status 0.
C10_OversizedArchiveKept ==
    Oversized # {}
    => /\ Oversized \subseteq DOMAIN zips
       /\ pc = "package"
          => /\ zips[SourceArchiveOfCurrent] =
                    archive_directory(fs, current.build_directory,
                        Listing(fs, current.build_directory), "is_source_code_file")
             /\ steps[Len(steps)] = << "archives", current.name >>
       /\ pc # "crashed"
       /\ pc = "exited" => compiler_status # 0
       /\ pc = "done"
          => /\ exit_status = 0
             /\ \A f \in Oversized :
                    LET contract_name == PathName(PathParent(f))
                    IN  /\ {"archives", "package", "gather"} \subseteq StepsOf(contract_name)
                        /\ contract_name \in DOMAIN ManifestOfRun
                        /\ PathName(f) \in {ManifestOfRun[contract_name]["srcArchive"],
                                            ManifestOfRun[contract_name]["output"]}
             /\ \A i \in 1 .. Len(contracts_directories) :
                    \E j \in 1 .. Len(steps) :
                        /\ steps[j][1] \in {"gather", "skip"}
                        /\ steps[j][2] =
                             get_contract_name_and_version(fs, contracts_directories[i])[1]

\* A run has completed after the source archive of its first contract and the
\* output archive of its second were above the ceiling.
C10_Witness ==
    /\ pc = "done"
    /\ exit_status = 0
    /\ Cardinality(Oversized) = 2
    /\ Cardinality({PathParent(f) : f \in Oversized}) = 2
    /\ Len(BuiltContracts) = 2

\* The files of a directory as (relative path, content) pairs.
FileSet(fsys, directory) ==
    {<< RelativeTo(f, directory), fsys[f] >> : f \in FilesUnder(fsys, directory)}

\* The (path, content) entries of the packaged project the current run was given.
PackageEntries ==
    LET entries == from_dict(packaged[args.packaged_project]).entries
    IN  {<< entries[i].path, entries[i].content >> : i \in 1 .. Len(entries)}

\* C12 (clean unwrap): in a run started from a packaged project, whatever runs
\* came before, the files copied into the build directory before compilation are
\* exactly the (path, content) entries of the run's package.
C12_BuildDirectoryIsThePackage ==
    (/\ args.project = None
     /\ args.packaged_project # None
     /\ pc = "loop"
     /\ steps[Len(steps)] = << "copy", "" >>)
    => FileSet(fs, HARDCODED_BUILD_DIRECTORY) = PackageEntries

====
